---------------------------- MODULE Spec2Model ----------------------------
(***************************************************************************)
(* Model of the nfl-etl transform and load stages (src/src/etl).           *)
(*                                                                         *)
(* A pandas DataFrame is a record [cols, rows]: cols is the set of column  *)
(* names, rows a sequence of functions from cols to cell values.  A        *)
(* missing text/identifier cell (None / NaN) is NULL, a missing numeric    *)
(* cell is NaN.  pandas semantics are those of pandas 1.x / 2.x, the       *)
(* versions nfl_data_py (imported by extract.py) installs with.            *)
(***************************************************************************)
EXTENDS Integers, Sequences, FiniteSets, TLC

VARIABLES
    \* ---- transform.py ----
    roster,             \* the roster snapshot read by transform_players
    players,            \* the value transform_players returns
    pbp,                \* the play-by-play snapshot
    player_game_stats,  \* the value transform_pbp_to_player_game returns
    tstage,             \* "start" | "done": position of the transform call
    \* ---- load.py, the prepare_* functions on their own ----
    prep_kind,          \* "players" | "player_game": the function applied
    prep_in,            \* its argument
    prep_out,           \* its result: [exc, df]
    \* ---- load.py: the transformed/ directory ----
    players_parquet,      \* dim_players.parquet: [exists, df]
    player_game_parquet,  \* fact_player_game.parquet
    injuries_parquet,     \* fact_player_injury.parquet
    \* ---- load.py: the warehouse ----
    stg_players,        \* staging tables: a frame; no columns = no table
    stg_player_game,
    stg_injuries,
    dim_player,         \* production tables: sequences of rows
    fact_player_game,
    fact_player_injury,
    meta_run_state,
    now,                \* the warehouse clock (CURRENT_TIMESTAMP / NOW())
    \* ---- load.py: one call of run_load from __main__ ----
    pc,                 \* the statement run_load is at
    skip_injuries,      \* --skip-injuries
    players_df,         \* locals of run_load
    pg_df,
    last_game_date,
    exit_code,          \* the exit code of the process; -1 while it runs
    \* ---- history, for stating the properties ----
    db0,                \* the warehouse when run_load was called
    failed_at,          \* the step whose exception ended the run
    inj_outcome,        \* how the injury staging block of this run went
    upserted            \* commits of each upsert_* function so far

tvars == <<roster, players, pbp, player_game_stats, tstage>>
pvars == <<prep_kind, prep_in, prep_out>>
files == <<players_parquet, player_game_parquet, injuries_parquet>>
staging == <<stg_players, stg_player_game, stg_injuries>>
production == <<dim_player, fact_player_game, fact_player_injury, meta_run_state>>
warehouse == <<staging, production>>
locals == <<pc, skip_injuries, players_df, pg_df, last_game_date, exit_code>>
history == <<db0, failed_at, inj_outcome, upserted>>
lvars == <<files, warehouse, now, locals, history>>

vars == <<tvars, pvars, lvars>>

-----------------------------------------------------------------------------
(* Bounds of the model *)

MaxRoster == 3
MaxPlays == 2
MaxPrepRows == 2
MaxLoadRows == 2
MaxStgRows == 2
MaxClock == 4

-----------------------------------------------------------------------------
(* Cell values and DataFrames *)

\* None / NaN in an object (text) column.
NULL == "<NA>"

\* NaN in a numeric column: what pd.merge(how='outer') leaves in the columns
\* of the side that has no row for a key.  Statistics of the model are >= 0.
NaN == -1

\* pd.DataFrame(): no columns, no rows.
EmptyDF == [cols |-> {}, rows |-> <<>>]

\* DataFrame.empty: true when any axis has length 0.
IsEmpty(df) == df.cols = {} \/ Len(df.rows) = 0

\* All sequences over S of length at most n.
SeqUpTo(S, n) == UNION {[1..k -> S] : k \in 0..n}

RECURSIVE SumCol(_, _)
\* Series.sum() of column c over a sequence of rows (NaN cells are skipped).
SumCol(rows, c) ==
    IF rows = <<>> THEN 0
    ELSE (IF Head(rows)[c] = NaN THEN 0 ELSE Head(rows)[c]) + SumCol(Tail(rows), c)

RECURSIVE Concat(_)
\* Concatenation of a sequence of sequences.
Concat(ss) == IF ss = <<>> THEN <<>> ELSE Head(ss) \o Concat(Tail(ss))

-----------------------------------------------------------------------------
(* transform.py: player dimension *)

PlayerCols == {"player_id", "first_name", "last_name", "position", "birth_date"}

\* DataFrame.drop_duplicates(): keeps the first of every group of rows that
\* are equal in ALL columns (no subset is given), in input order.
DropDuplicates(rows) ==
    LET keep == {i \in 1..Len(rows) : \A j \in 1..(i-1) : rows[j] # rows[i]}
        F[i \in 0..Len(rows)] ==
            IF i = 0 THEN <<>>
            ELSE IF i \in keep THEN Append(F[i-1], rows[i]) ELSE F[i-1]
    IN F[Len(rows)]

\* str + str of two object cells: NaN when either is missing.
StrAdd(a, b) == IF a = NULL \/ b = NULL THEN NULL ELSE a \o b

\* transform_players: project the five columns, drop duplicate rows, derive
\* full_name.
transform_players(df) ==
    LET proj == [i \in 1..Len(df.rows) |-> [c \in PlayerCols |-> df.rows[i][c]]]
        dedup == DropDuplicates(proj)
        withName(r) ==
            [c \in PlayerCols \cup {"full_name"} |->
                IF c = "full_name"
                THEN StrAdd(StrAdd(r["first_name"], " "), r["last_name"])
                ELSE r[c]]
    IN [cols |-> PlayerCols \cup {"full_name"},
        rows |-> [i \in 1..Len(dedup) |-> withName(dedup[i])]]

\* Roster rows the model draws: two players, each possibly listed several
\* times with a different position or team, the last name possibly missing.
RosterCols == PlayerCols \cup {"team"}

RosterRow(p, pos, ln, tm) ==
    [c \in RosterCols |->
        CASE c = "player_id" -> p
          [] c = "first_name" -> "Al"
          [] c = "last_name" -> ln
          [] c = "position" -> pos
          [] c = "birth_date" -> "1999-01-01"
          [] OTHER -> tm]

RosterRows ==
    {RosterRow(p, pos, ln, tm) :
        p \in {"p1", "p2"}, pos \in {"QB", "WR"}, ln \in {"Roe", NULL},
        tm \in {"KC", "SF"}}

-----------------------------------------------------------------------------
(* transform.py: player-game fact *)

GameIds == <<"G1", "G2">>
PlayerIds == <<"p1", "p2">>

PbpCols ==
    {"game_id", "passer_player_id", "rusher_player_id", "receiver_player_id",
     "pass_attempt", "complete_pass", "passing_yards", "pass_touchdown",
     "interception", "rush_attempt", "rushing_yards", "rush_touchdown",
     "receiving_yards"}

\* A pass play: thrown by a to b; out is "inc" (incomplete), "comp"
\* (complete) or "td" (complete, touchdown).
PassPlay(g, a, b, out) ==
    [c \in PbpCols |->
        CASE c = "game_id" -> g
          [] c = "passer_player_id" -> a
          [] c = "receiver_player_id" -> b
          [] c = "rusher_player_id" -> NULL
          [] c = "pass_attempt" -> 1
          [] c = "complete_pass" -> IF out = "inc" THEN 0 ELSE 1
          [] c = "passing_yards" -> IF out = "inc" THEN 0 ELSE 7
          [] c = "receiving_yards" -> IF out = "inc" THEN 0 ELSE 7
          [] c = "pass_touchdown" -> IF out = "td" THEN 1 ELSE 0
          [] OTHER -> 0]

\* A rush play by r.
RushPlay(g, r, td) ==
    [c \in PbpCols |->
        CASE c = "game_id" -> g
          [] c = "rusher_player_id" -> r
          [] c = "passer_player_id" -> NULL
          [] c = "receiver_player_id" -> NULL
          [] c = "rush_attempt" -> 1
          [] c = "rushing_yards" -> 5
          [] c = "rush_touchdown" -> td
          [] OTHER -> 0]

Games == {GameIds[i] : i \in 1..Len(GameIds)}

PlaySet ==
    {PassPlay(g, a, b, out) :
        g \in Games, a \in {"p1", NULL}, b \in {"p1", "p2", NULL},
        out \in {"inc", "comp", "td"}}
    \cup
    {RushPlay(g, r, td) : g \in Games, r \in {"p1", "p2", NULL}, td \in {0, 1}}

\* Every (game_id, player_id) key in the order pandas sorts them.
KeyOrder ==
    [i \in 1..(Len(GameIds) * Len(PlayerIds)) |->
        <<GameIds[((i - 1) \div Len(PlayerIds)) + 1],
          PlayerIds[((i - 1) % Len(PlayerIds)) + 1]>>]

\* The keys of S as a sequence in sorted order.
SortedKeys(S) == SelectSeq(KeyOrder, LAMBDA k : k \in S)

\* df.groupby(['game_id', idcol]).agg({c: 'sum' for c in sumcols})
\*   .reset_index(): one row per key, sorted by key; rows whose key holds a
\* missing value are left out (groupby's dropna=True).
GroupBySum(rows, idcol, sumcols) ==
    LET keyOf(r) == <<r["game_id"], r[idcol]>>
        keys == {keyOf(rows[i]) : i \in
                    {j \in 1..Len(rows) :
                        rows[j]["game_id"] # NULL /\ rows[j][idcol] # NULL}}
        order == SortedKeys(keys)
        group(k) == SelectSeq(rows, LAMBDA r : keyOf(r) = k)
        outRow(k) ==
            [c \in {"game_id", idcol} \cup sumcols |->
                IF c = "game_id" THEN k[1]
                ELSE IF c = idcol THEN k[2]
                ELSE SumCol(group(k), c)]
    IN [cols |-> {"game_id", idcol} \cup sumcols,
        rows |-> [i \in 1..Len(order) |-> outRow(order[i])]]

\* DataFrame.rename(columns=m): m is a function from old names to new ones;
\* columns m does not name keep theirs.
Rename(df, m) ==
    LET new(c) == IF c \in DOMAIN m THEN m[c] ELSE c
        old(n) == CHOOSE c \in df.cols : new(c) = n
        ncols == {new(c) : c \in df.cols}
    IN [cols |-> ncols,
        rows |-> [i \in 1..Len(df.rows) |-> [n \in ncols |-> df.rows[i][old(n)]]]]

extract_passing_stats(plays) ==
    LET passing_plays == SelectSeq(plays, LAMBDA r : r["pass_attempt"] = 1)
    IN IF passing_plays = <<>> THEN EmptyDF
       ELSE Rename(
              GroupBySum(passing_plays, "passer_player_id",
                         {"pass_attempt", "complete_pass", "passing_yards",
                          "pass_touchdown", "interception"}),
              [c \in {"passer_player_id", "pass_attempt", "complete_pass",
                      "passing_yards", "pass_touchdown"} |->
                  CASE c = "passer_player_id" -> "player_id"
                    [] c = "pass_attempt" -> "pass_attempts"
                    [] c = "complete_pass" -> "completions"
                    [] c = "passing_yards" -> "pass_yards"
                    [] OTHER -> "pass_tds"])

extract_rushing_stats(plays) ==
    LET rushing_plays == SelectSeq(plays, LAMBDA r : r["rush_attempt"] = 1)
    IN IF rushing_plays = <<>> THEN EmptyDF
       ELSE Rename(
              GroupBySum(rushing_plays, "rusher_player_id",
                         {"rush_attempt", "rushing_yards", "rush_touchdown"}),
              [c \in {"rusher_player_id", "rush_attempt", "rush_touchdown"} |->
                  CASE c = "rusher_player_id" -> "player_id"
                    [] c = "rush_attempt" -> "rush_attempts"
                    [] OTHER -> "rush_tds"])

extract_receiving_stats(plays) ==
    LET receiving_plays == SelectSeq(plays, LAMBDA r : r["complete_pass"] = 1)
    IN IF receiving_plays = <<>> THEN EmptyDF
       ELSE Rename(
              GroupBySum(receiving_plays, "receiver_player_id",
                         {"complete_pass", "receiving_yards", "pass_touchdown"}),
              [c \in {"receiver_player_id", "complete_pass", "receiving_yards",
                      "pass_touchdown"} |->
                  CASE c = "receiver_player_id" -> "player_id"
                    [] c = "complete_pass" -> "receptions"
                    [] c = "receiving_yards" -> "rec_yards"
                    [] OTHER -> "rec_tds"])

KeyCols == {"game_id", "player_id"}

\* pd.merge(L, R, on=['game_id', 'player_id'], how='outer'): for every key of
\* either side, in sorted order, every pairing of the left rows and the
\* right rows with that key; a side with no row for the key contributes NaN.
\* (The three statistic frames share no column but the keys.)
MergeOuter(L, R) ==
    LET cols == L.cols \cup R.cols
        keyOf(r) == <<r["game_id"], r["player_id"]>>
        keysOf(df) == {keyOf(df.rows[i]) : i \in 1..Len(df.rows)}
        order == SortedKeys(keysOf(L) \cup keysOf(R))
        join(l, r) ==
            [c \in cols |-> IF c \in L.cols THEN l[c] ELSE r[c]]
        leftOnly(l) == [c \in cols |-> IF c \in L.cols THEN l[c] ELSE NaN]
        rightOnly(r) == [c \in cols |-> IF c \in R.cols THEN r[c] ELSE NaN]
        forKey(k) ==
            LET lm == SelectSeq(L.rows, LAMBDA r : keyOf(r) = k)
                rm == SelectSeq(R.rows, LAMBDA r : keyOf(r) = k)
            IN IF rm = <<>> THEN [i \in 1..Len(lm) |-> leftOnly(lm[i])]
               ELSE IF lm = <<>> THEN [i \in 1..Len(rm) |-> rightOnly(rm[i])]
               ELSE [n \in 1..(Len(lm) * Len(rm)) |->
                        join(lm[((n - 1) \div Len(rm)) + 1],
                             rm[((n - 1) % Len(rm)) + 1])]
    IN [cols |-> cols,
        rows |-> Concat([i \in 1..Len(order) |-> forKey(order[i])])]

\* The columns select_dtypes(include=['number']) finds: every column but the
\* two identifier (object) columns.
NumericColsOf(df) == df.cols \ KeyCols

\* A column test that leaves the receiving touchdowns out of the total.
EndsWithTdsDeduplicated(c) == c \in {"pass_tds", "rush_tds", "total_tds"}

\* col.endswith('_tds'), over the column names of the model.
EndsWithTds(c) == c \in {"pass_tds", "rush_tds", "rec_tds", "total_tds"}

\* The loop of combine_player_stats over [passing_df, rushing_df,
\* receiving_df]: an empty frame is skipped, the first non-empty one is
\* taken as it is, the later ones are outer-merged into it.
MergeAll(dfs) ==
    LET F[i \in 0..Len(dfs)] ==
            IF i = 0 THEN EmptyDF
            ELSE IF IsEmpty(dfs[i]) THEN F[i-1]
            ELSE IF IsEmpty(F[i-1]) THEN dfs[i]
            ELSE MergeOuter(F[i-1], dfs[i])
    IN F[Len(dfs)]

\* fillna(0) on the numeric columns.
FillNumeric(df) ==
    [cols |-> df.cols,
     rows |-> [i \in 1..Len(df.rows) |->
                [c \in df.cols |->
                    IF c \in NumericColsOf(df) /\ df.rows[i][c] = NaN
                    THEN 0 ELSE df.rows[i][c]]]]

RECURSIVE SumCells(_, _)
\* Sum of the cells of row r in the columns of the set cs.
SumCells(r, cs) ==
    IF cs = {} THEN 0
    ELSE LET c == CHOOSE x \in cs : TRUE IN r[c] + SumCells(r, cs \ {c})

\* total_tds: the row-wise sum of the columns whose name ends in '_tds',
\* added only when there is such a column.
AddTotalTds(df) ==
    LET td_cols == {c \in df.cols : EndsWithTds(c)}
    IN IF td_cols = {} THEN df
       ELSE [cols |-> df.cols \cup {"total_tds"},
             rows |-> [i \in 1..Len(df.rows) |->
                        [c \in df.cols \cup {"total_tds"} |->
                            IF c = "total_tds"
                            THEN SumCells(df.rows[i], td_cols)
                            ELSE df.rows[i][c]]]]

combine_player_stats(passing_df, rushing_df, receiving_df) ==
    AddTotalTds(FillNumeric(MergeAll(<<passing_df, rushing_df, receiving_df>>)))

transform_pbp_to_player_game(plays) ==
    combine_player_stats(extract_passing_stats(plays),
                         extract_rushing_stats(plays),
                         extract_receiving_stats(plays))

-----------------------------------------------------------------------------
(* load.py: data preparation *)

\* What a function call gives: the exception it raised ("none" when it
\* returned) and the frame it returned.
Returned(df) == [exc |-> "none", df |-> df]
Raised(e) == [exc |-> e, df |-> EmptyDF]
NoResult == Raised("not called")

\* Series.astype(str) of an object cell: a missing value becomes the text
\* 'None' (str(None)); it is no longer missing.
AstypeStr(v) == IF v = NULL THEN "None" ELSE v

\* df[col] = df[col].astype(str)
ColAstypeStr(df, col) ==
    [cols |-> df.cols,
     rows |-> [i \in 1..Len(df.rows) |->
                [c \in df.cols |->
                    IF c = col THEN AstypeStr(df.rows[i][c]) ELSE df.rows[i][c]]]]

\* df.dropna(subset=cols): the rows with no missing value in cols.
DropNa(df, subset) ==
    [cols |-> df.cols,
     rows |-> SelectSeq(df.rows, LAMBDA r : \A c \in subset : r[c] # NULL)]

\* df[col] = df[col].fillna(val) for every col of the set fcols.
FillNa(df, fcols, val) ==
    [cols |-> df.cols,
     rows |-> [i \in 1..Len(df.rows) |->
                [c \in df.cols |->
                    IF c \in fcols /\ df.rows[i][c] = NULL THEN val
                    ELSE df.rows[i][c]]]]

\* df[[c for c in staging_cols if c in df.columns]]
SelectAvailable(df, staging_cols) ==
    LET available_cols == staging_cols \cap df.cols
    IN [cols |-> available_cols,
        rows |-> [i \in 1..Len(df.rows) |->
                    [c \in available_cols |-> df.rows[i][c]]]]

PlayerStagingCols ==
    {"player_id", "first_name", "last_name", "full_name", "position", "birth_date"}

\* prepare_players_for_staging.  Indexing a column the frame does not have
\* raises KeyError.
prepare_players_for_staging(df) ==
    IF "player_id" \notin df.cols THEN Raised("KeyError")
    ELSE IF {"first_name", "last_name", "full_name", "position"} \ df.cols # {}
    THEN Raised("KeyError")
    ELSE LET a == ColAstypeStr(df, "player_id")
             d == DropNa(a, {"player_id"})
             f == FillNa(FillNa(d, {"first_name", "last_name", "full_name"}, ""),
                         {"position"}, "UNK")
         IN Returned(SelectAvailable(f, PlayerStagingCols))

numeric_columns ==
    {"pass_attempts", "completions", "pass_yards", "pass_tds", "interception",
     "rush_attempts", "rush_yards", "rush_tds",
     "receptions", "rec_yards", "rec_tds", "total_tds", "fumbles"}

\* pd.to_numeric(v, errors='coerce') then fillna(0).astype(int): a missing
\* or unparseable cell (NaN) becomes 0.
ToInt(v) == IF v = NaN THEN 0 ELSE v

\* The loop over numeric_columns: a column the frame lacks is created as 0,
\* one it has is coerced to integers.
EnsureNumeric(df) ==
    [cols |-> df.cols \cup numeric_columns,
     rows |-> [i \in 1..Len(df.rows) |->
                [c \in df.cols \cup numeric_columns |->
                    IF c \notin numeric_columns THEN df.rows[i][c]
                    ELSE IF c \notin df.cols THEN 0
                    ELSE ToInt(df.rows[i][c])]]]

\* prepare_player_game_for_staging.  (The frames of the model never hold
\* both 'completions' and 'pass_completions'.)
prepare_player_game_for_staging(df) ==
    IF {"game_id", "player_id"} \ df.cols # {} THEN Raised("KeyError")
    ELSE LET a == ColAstypeStr(ColAstypeStr(df, "game_id"), "player_id")
             d == DropNa(a, {"game_id", "player_id"})
             r == Rename(d, [c \in {"pass_completions"} |-> "completions"])
             n == EnsureNumeric(r)
         IN Returned(SelectAvailable(n, {"game_id", "player_id"} \cup numeric_columns))

\* A player row over the columns cols.
PlayerRow(cols, id, pos) ==
    [c \in cols |->
        CASE c = "player_id" -> id
          [] c = "first_name" -> "Al"
          [] c = "last_name" -> "Roe"
          [] c = "full_name" -> "Al Roe"
          [] c = "position" -> pos
          [] c = "birth_date" -> "1999-01-01"
          [] OTHER -> "x"]

\* A player-game row over the columns cols: every statistic it has is v.
PlayerGameRow(cols, g, p, v, dk) ==
    [c \in cols |->
        CASE c = "game_id" -> g
          [] c = "player_id" -> p
          [] c = "date_key" -> dk
          [] OTHER -> v]

\* The frames over the column set cols with at most n rows of the set R.
Frames(cols, R, n) == {[cols |-> cols, rows |-> rs] : rs \in SeqUpTo(R, n)}

\* Column sets of the player frames handed to prepare_players_for_staging:
\* the staging columns, with one more, without birth_date, without position.
PrepPlayerColSets ==
    {PlayerStagingCols, PlayerStagingCols \cup {"team"},
     PlayerStagingCols \ {"birth_date"}, PlayerStagingCols \ {"position"}}

PrepPlayerFrames ==
    UNION {Frames(cs,
                  {PlayerRow(cs, id, pos) :
                      id \in {"p1", "p2", NULL}, pos \in {"QB", NULL}},
                  MaxPrepRows) : cs \in PrepPlayerColSets}

\* Column sets of the player-game frames: what combine_player_stats writes
\* when every category has plays, the same with a date_key, and a frame with
\* only one statistic under the name pass_completions.
CombinedCols ==
    KeyCols \cup {"pass_attempts", "completions", "pass_yards", "pass_tds",
                  "interception", "rush_attempts", "rushing_yards", "rush_tds",
                  "receptions", "rec_yards", "rec_tds", "total_tds"}

PrepPlayerGameColSets ==
    {CombinedCols, CombinedCols \cup {"date_key"}, KeyCols \cup {"pass_completions"}}

PrepPlayerGameFrames ==
    UNION {Frames(cs,
                  {PlayerGameRow(cs, g, p, v, 20251105) :
                      g \in {"G1", NULL}, p \in {"p1", NULL}, v \in {2, NaN}},
                  MaxPrepRows) : cs \in PrepPlayerGameColSets}

-----------------------------------------------------------------------------
(* load.py: the warehouse *)

\* A staging table that does not exist.
NoTable == EmptyDF

\* Unique keys of the production tables (the schema is not part of src/;
\* these are the keys section 6 of the specification declares).
DimPlayerKey == {"player_id"}
FactPlayerGameKey == {"game_id", "player_id"}
FactPlayerInjuryKey == {}
MetaRunStateKey == {"pipeline_name"}

\* The rows of a table that collide with row new on the unique key keycols;
\* none when the table has no unique key.
Duplicates(table, keycols, new) ==
    IF keycols = {} THEN {}
    ELSE {i \in 1..Len(table) : \A c \in keycols : table[i][c] = new[c]}

\* A statement that adds the new statistics to the stored ones instead of
\* replacing them.
OnDuplicateKeyAccumulate(old, new, updcols) ==
    [c \in DOMAIN old |->
        IF c \in updcols /\ c \in {"pass_tds", "total_tds"} THEN old[c] + new[c]
        ELSE IF c \in updcols THEN new[c]
        ELSE old[c]]

\* A statement that leaves a row it finds as it is (INSERT IGNORE).
OnDuplicateKeyKeep(old, new, updcols) == old

\* ON DUPLICATE KEY UPDATE c = VALUES(c) for the columns updcols: the listed
\* columns take the values of the row that was to be inserted.
OnDuplicateKeyUpdate(old, new, updcols) ==
    [c \in DOMAIN old |-> IF c \in updcols THEN new[c] ELSE old[c]]

\* INSERT ... ON DUPLICATE KEY UPDATE of one row.
UpsertRow(table, keycols, new, updcols) ==
    LET hit == Duplicates(table, keycols, new)
    IN IF hit = {} THEN Append(table, new)
       ELSE [i \in 1..Len(table) |->
                IF i \in hit THEN OnDuplicateKeyUpdate(table[i], new, updcols)
                ELSE table[i]]

\* INSERT IGNORE of one row: a row that collides on a unique key is skipped.
InsertIgnoreRow(table, keycols, new) ==
    IF Duplicates(table, keycols, new) = {} THEN Append(table, new) ELSE table

\* INSERT ... SELECT ... ON DUPLICATE KEY UPDATE after the first k selected
\* rows; the rows are taken in the order of the staging table.
UpsertRows(table, keycols, news, updcols, k) ==
    LET F[i \in 0..k] ==
            IF i = 0 THEN table ELSE UpsertRow(F[i-1], keycols, news[i], updcols)
    IN F[k]

InsertIgnoreRows(table, keycols, news, k) ==
    LET F[i \in 0..k] ==
            IF i = 0 THEN table ELSE InsertIgnoreRow(F[i-1], keycols, news[i])
    IN F[k]

\* A connection that autocommits each row: nothing is rolled back.
RollbackKeepsPartial(before, partial) == partial

\* with engine.begin() as conn: an exception inside the block rolls the
\* transaction back, so the table is as it was before the statement.
Rollback(before, partial) == before

\* A statement can read the columns cols of a staging table only if the
\* table exists and has them.
CanSelect(tbl, cols) == cols # {} /\ cols \subseteq tbl.cols

COALESCE(v, d) == IF v = NaN THEN d ELSE v

\* The SELECT of upsert_players_from_stg, with the timestamp the inserted or
\* updated row gets.
SelectPlayers(stg, ts) ==
    LET src == SelectSeq(stg.rows, LAMBDA r : r["player_id"] # NULL)
    IN [i \in 1..Len(src) |->
            [player_id |-> src[i]["player_id"],
             first_name |-> src[i]["first_name"],
             last_name |-> src[i]["last_name"],
             full_name |-> src[i]["full_name"],
             position |-> src[i]["position"],
             birth_date |-> src[i]["birth_date"],
             active |-> 1,
             updated_at |-> ts]]

DimPlayerUpdateCols ==
    {"first_name", "last_name", "full_name", "position", "birth_date", "active",
     "updated_at"}

\* The SELECT of upsert_player_games_from_stg.
SelectPlayerGames(stg, ts) ==
    LET src == SelectSeq(stg.rows,
                      LAMBDA r : r["game_id"] # NULL /\ r["player_id"] # NULL)
    IN [i \in 1..Len(src) |->
            [game_id |-> src[i]["game_id"],
             player_id |-> src[i]["player_id"],
             pass_attempts |-> COALESCE(src[i]["pass_attempts"], 0),
             pass_completions |-> COALESCE(src[i]["completions"], 0),
             pass_yards |-> COALESCE(src[i]["pass_yards"], 0),
             pass_tds |-> COALESCE(src[i]["pass_tds"], 0),
             interception |-> COALESCE(src[i]["interception"], 0),
             rush_attempts |-> COALESCE(src[i]["rush_attempts"], 0),
             rush_yards |-> COALESCE(src[i]["rush_yards"], 0),
             rush_tds |-> COALESCE(src[i]["rush_tds"], 0),
             receptions |-> COALESCE(src[i]["receptions"], 0),
             rec_yards |-> COALESCE(src[i]["rec_yards"], 0),
             rec_tds |-> COALESCE(src[i]["rec_tds"], 0),
             total_tds |-> COALESCE(src[i]["total_tds"], 0),
             fumbles |-> COALESCE(src[i]["fumbles"], 0),
             updated_at |-> ts]]

FactStatCols ==
    {"pass_attempts", "pass_completions", "pass_yards", "pass_tds", "interception",
     "rush_attempts", "rush_yards", "rush_tds", "receptions", "rec_yards",
     "rec_tds", "total_tds", "fumbles"}

FactPlayerGameUpdateCols == FactStatCols \cup {"updated_at"}

InjuryCols == {"player_id", "season", "week", "injury_type", "status"}

\* The SELECT of upsert_injuries_from_stg.
SelectInjuries(stg) ==
    LET src == SelectSeq(stg.rows, LAMBDA r : r["player_id"] # NULL)
    IN [i \in 1..Len(src) |-> [c \in InjuryCols |-> src[i][c]]]

\* The three statements: what the table holds after the first k selected
\* rows.
UpsertPlayersStmt(table, stg, ts, k) ==
    UpsertRows(table, DimPlayerKey, SelectPlayers(stg, ts), DimPlayerUpdateCols, k)

UpsertPlayerGamesStmt(table, stg, ts, k) ==
    UpsertRows(table, FactPlayerGameKey, SelectPlayerGames(stg, ts),
               FactPlayerGameUpdateCols, k)

UpsertInjuriesStmt(table, stg, k) ==
    InsertIgnoreRows(table, FactPlayerInjuryKey, SelectInjuries(stg), k)

\* The statement of update_meta_run_state.
UpdateMetaStmt(table, pipeline, lgd, ts) ==
    UpsertRow(table, MetaRunStateKey,
              [pipeline_name |-> pipeline, last_run_at |-> ts,
               last_game_date |-> lgd, updated_at |-> ts],
              {"last_run_at", "last_game_date", "updated_at"})

\* df.to_sql(table, if_exists="replace") that raises: the old table is
\* dropped, recreated and filled in that order, with no transaction around
\* the three, so the table is left as it was, dropped, or holding only the
\* first rows of the frame.
FailedWriteOutcomes(old, df) ==
    {old, NoTable} \cup
    {[cols |-> df.cols, rows |-> SubSeq(df.rows, 1, k)] : k \in 0..(Len(df.rows) - 1)}

\* s[a:b] of Python on a string (0-based, end exclusive, clamped).
PySlice(s, a, b) ==
    LET e == IF b > Len(s) THEN Len(s) ELSE b
    IN IF a >= e THEN "" ELSE SubSeq(s, a + 1, e)

\* f"{str(k)[:4]}-{str(k)[4:6]}-{str(k)[6:]}"
FormatDateKey(k) ==
    LET str == ToString(k)
    IN PySlice(str, 0, 4) \o "-" \o PySlice(str, 4, 6) \o "-" \o PySlice(str, 6, Len(str))

RECURSIVE MaxOf(_)
MaxOf(S) ==
    LET x == CHOOSE y \in S : TRUE
    IN IF S = {x} THEN x
       ELSE LET m == MaxOf(S \ {x}) IN IF x > m THEN x ELSE m

\* The last_game_date run_load computes from the frame it stages.
LastGameDate(df) ==
    IF "date_key" \in df.cols /\ Len(df.rows) > 0
    THEN FormatDateKey(MaxOf({df.rows[i]["date_key"] : i \in 1..Len(df.rows)}))
    ELSE NULL

\* ensure_file: does not raise.
ensure_file(f) == f.exists

\* A __main__ without the except FileNotFoundError clause.
ExitCodeWithoutFileClause(exc) ==
    CASE exc = "SQLAlchemyError" -> 3
      [] OTHER -> 1

\* The exit code __main__ gives for the exception that left run_load.
ExitCodeFor(exc) ==
    CASE exc = "FileNotFoundError" -> 2
      [] exc = "SQLAlchemyError" -> 3
      [] OTHER -> 1

\* prepare_injuries_for_staging (season and week of the model are numbers
\* already, so pd.to_numeric leaves them as they are).
prepare_injuries_for_staging(df) ==
    IF IsEmpty(df) THEN Returned(df)
    ELSE IF "player_id" \notin df.cols THEN Raised("KeyError")
    ELSE Returned(DropNa(ColAstypeStr(df, "player_id"), {"player_id"}))

-----------------------------------------------------------------------------
(* load.py: files and warehouses the model starts from *)

Missing == [exists |-> FALSE, df |-> EmptyDF]
File(df) == [exists |-> TRUE, df |-> df]

InjuryRow(cols, p) ==
    [c \in cols |->
        CASE c = "player_id" -> p
          [] c = "season" -> 2025
          [] c = "week" -> 1
          [] c = "injury_type" -> "knee"
          [] OTHER -> "Out"]

\* dim_players.parquet: missing, or up to MaxLoadRows rows, with or without
\* the position column.
LoadPlayerFiles ==
    {Missing} \cup
    {File(f) : f \in UNION {Frames(cs, {PlayerRow(cs, "p1", "QB"),
                                         PlayerRow(cs, "p2", NULL)}, MaxLoadRows) :
                              cs \in {PlayerStagingCols,
                                      PlayerStagingCols \ {"position"}}}}

\* fact_player_game.parquet: missing, or up to MaxLoadRows rows, with or
\* without a date_key column.
LoadPlayerGameFiles ==
    {Missing} \cup
    {File(f) : f \in UNION {Frames(cs, {PlayerGameRow(cs, "G1", "p1", 2, 20250907),
                                         PlayerGameRow(cs, "G1", "p2", 3, 20251105)},
                                   MaxLoadRows) :
                              cs \in {CombinedCols, CombinedCols \cup {"date_key"}}}}

\* fact_player_injury.parquet: missing, or up to MaxLoadRows rows, with or
\* without the player_id column.
LoadInjuryFiles ==
    {Missing} \cup
    {File(f) : f \in UNION {Frames(cs, {InjuryRow(cs, "p1")}, MaxLoadRows) :
                              cs \in {InjuryCols, InjuryCols \ {"player_id"}}}}

PlayerGameStagingCols == {"game_id", "player_id"} \cup numeric_columns

\* A warehouse no run has written to.
FreshWarehouse ==
    [stg_players |-> NoTable, stg_player_game |-> NoTable, stg_injuries |-> NoTable,
     dim_player |-> <<>>, fact_player_game |-> <<>>, fact_player_injury |-> <<>>,
     meta_run_state |-> <<>>]

\* The warehouse an earlier run, at time 0, left: it staged and loaded
\* players p1 and p9, their games and an injury report of p1.
EarlierStaging ==
    [stg_players |->
        [cols |-> PlayerStagingCols,
         rows |-> <<PlayerRow(PlayerStagingCols, "p1", "WR"),
                    PlayerRow(PlayerStagingCols, "p9", "QB")>>],
     stg_player_game |->
        [cols |-> PlayerGameStagingCols,
         rows |-> <<PlayerGameRow(PlayerGameStagingCols, "G1", "p1", 1, 0),
                    PlayerGameRow(PlayerGameStagingCols, "G0", "p9", 1, 0)>>],
     stg_injuries |->
        [cols |-> InjuryCols, rows |-> <<InjuryRow(InjuryCols, "p1")>>]]

UsedWarehouse ==
    [stg_players |-> EarlierStaging.stg_players,
     stg_player_game |-> EarlierStaging.stg_player_game,
     stg_injuries |-> EarlierStaging.stg_injuries,
     dim_player |->
        UpsertPlayersStmt(<<>>, EarlierStaging.stg_players, 0,
                          Len(EarlierStaging.stg_players.rows)),
     fact_player_game |->
        UpsertPlayerGamesStmt(<<>>, EarlierStaging.stg_player_game, 0,
                              Len(EarlierStaging.stg_player_game.rows)),
     fact_player_injury |->
        UpsertInjuriesStmt(<<>>, EarlierStaging.stg_injuries,
                           Len(EarlierStaging.stg_injuries.rows)),
     meta_run_state |-> UpdateMetaStmt(<<>>, "nfl_pbp_load", NULL, 0)]

Warehouses == {FreshWarehouse, UsedWarehouse}

\* The warehouse as one value.
WH ==
    [stg_players |-> stg_players, stg_player_game |-> stg_player_game,
     stg_injuries |-> stg_injuries, dim_player |-> dim_player,
     fact_player_game |-> fact_player_game,
     fact_player_injury |-> fact_player_injury,
     meta_run_state |-> meta_run_state]

WarehouseIs(w) ==
    /\ stg_players = w.stg_players
    /\ stg_player_game = w.stg_player_game
    /\ stg_injuries = w.stg_injuries
    /\ dim_player = w.dim_player
    /\ fact_player_game = w.fact_player_game
    /\ fact_player_injury = w.fact_player_injury
    /\ meta_run_state = w.meta_run_state

NotCalled ==
    /\ pc = "idle"
    /\ skip_injuries = FALSE
    /\ players_df = EmptyDF
    /\ pg_df = EmptyDF
    /\ last_game_date = NULL
    /\ exit_code = -1
    /\ failed_at = "none"
    /\ inj_outcome = "none"
    /\ upserted = [players |-> 0, player_games |-> 0, injuries |-> 0]
    /\ now = 0

\* The transform functions, the prepare_* functions and run_load are
\* checked one at a time: these hold of the parts a specification leaves out.
TransformIdle ==
    /\ roster = <<>>
    /\ players = EmptyDF
    /\ pbp = <<>>
    /\ player_game_stats = EmptyDF
    /\ tstage = "done"

PrepareIdle ==
    /\ prep_kind = "none"
    /\ prep_in = EmptyDF
    /\ prep_out = NoResult

LoadIdle ==
    /\ players_parquet = Missing
    /\ player_game_parquet = Missing
    /\ injuries_parquet = Missing
    /\ WarehouseIs(FreshWarehouse)
    /\ db0 = FreshWarehouse
    /\ NotCalled

-----------------------------------------------------------------------------
(* load.py: the upsert_* functions.  committed says whether the transaction
   commits; when it does not, the function raises. *)

upsert_players_from_stg(committed, ts) ==
    LET can == CanSelect(stg_players, PlayerStagingCols)
        n == IF can THEN Len(SelectPlayers(stg_players, ts)) ELSE 0
    IN IF committed
       THEN /\ can
            /\ dim_player' = UpsertPlayersStmt(dim_player, stg_players, ts, n)
            /\ upserted' = [upserted EXCEPT !.players = @ + 1]
       ELSE /\ \E k \in 0..n :
                 dim_player' =
                    Rollback(dim_player,
                             IF can THEN UpsertPlayersStmt(dim_player, stg_players, ts, k)
                             ELSE dim_player)
            /\ UNCHANGED upserted

upsert_player_games_from_stg(committed, ts) ==
    LET can == CanSelect(stg_player_game, PlayerGameStagingCols)
        n == IF can THEN Len(SelectPlayerGames(stg_player_game, ts)) ELSE 0
    IN IF committed
       THEN /\ can
            /\ fact_player_game' =
                   UpsertPlayerGamesStmt(fact_player_game, stg_player_game, ts, n)
            /\ upserted' = [upserted EXCEPT !.player_games = @ + 1]
       ELSE /\ \E k \in 0..n :
                 fact_player_game' =
                    Rollback(fact_player_game,
                             IF can
                             THEN UpsertPlayerGamesStmt(fact_player_game,
                                                        stg_player_game, ts, k)
                             ELSE fact_player_game)
            /\ UNCHANGED upserted

upsert_injuries_from_stg(committed) ==
    LET can == CanSelect(stg_injuries, InjuryCols)
        n == IF can THEN Len(SelectInjuries(stg_injuries)) ELSE 0
    IN IF committed
       THEN /\ can
            /\ fact_player_injury' =
                   UpsertInjuriesStmt(fact_player_injury, stg_injuries, n)
            /\ upserted' = [upserted EXCEPT !.injuries = @ + 1]
       ELSE /\ \E k \in 0..n :
                 fact_player_injury' =
                    Rollback(fact_player_injury,
                             IF can
                             THEN UpsertInjuriesStmt(fact_player_injury, stg_injuries, k)
                             ELSE fact_player_injury)
            /\ UNCHANGED upserted

update_meta_run_state(committed, pipeline, lgd, ts) ==
    IF committed
    THEN meta_run_state' = UpdateMetaStmt(meta_run_state, pipeline, lgd, ts)
    ELSE meta_run_state' = Rollback(meta_run_state, meta_run_state)

-----------------------------------------------------------------------------
(* load.py: run_load, called once from __main__ *)

\* An exception of step leaves run_load: its except clause re-raises it and
\* __main__ turns it into the exit code.
Fail(step, exc) ==
    /\ pc' = "exit"
    /\ exit_code' = ExitCodeFor(exc)
    /\ failed_at' = step

InitLoad ==
    /\ players_parquet \in LoadPlayerFiles
    /\ player_game_parquet \in LoadPlayerGameFiles
    /\ injuries_parquet \in LoadInjuryFiles
    /\ \E w \in Warehouses : WarehouseIs(w) /\ db0 = w
    /\ NotCalled
    /\ TransformIdle
    /\ PrepareIdle

\* python load.py [--skip-injuries]
Start ==
    /\ pc = "idle"
    /\ pc' = "ensure_file"
    /\ skip_injuries' \in BOOLEAN
    /\ now' = now + 1
    /\ db0' = WH
    /\ UNCHANGED <<files, warehouse, players_df, pg_df, last_game_date, exit_code,
                   failed_at, inj_outcome, upserted, tvars, pvars>>

\* ensure_file(players_path); ensure_file(player_game_path)
EnsureFiles ==
    /\ pc = "ensure_file"
    /\ IF ensure_file(players_parquet) /\ ensure_file(player_game_parquet)
       THEN pc' = "read" /\ UNCHANGED <<exit_code, failed_at>>
       ELSE Fail("ensure_file", "FileNotFoundError")
    /\ UNCHANGED <<files, warehouse, now, skip_injuries, players_df, pg_df,
                   last_game_date, db0, inj_outcome, upserted, tvars, pvars>>

\* pd.read_parquet of the two files, prepare_*_for_staging, last_game_date.
ReadAndPrepare ==
    /\ pc = "read"
    /\ \E readable \in BOOLEAN :
        LET p == prepare_players_for_staging(players_parquet.df)
            g == prepare_player_game_for_staging(player_game_parquet.df)
        IN IF ~players_parquet.exists \/ ~player_game_parquet.exists
           THEN Fail("read", "FileNotFoundError")
                /\ UNCHANGED <<players_df, pg_df, last_game_date>>
           ELSE IF ~readable
           THEN Fail("read", "OSError")
                /\ UNCHANGED <<players_df, pg_df, last_game_date>>
           ELSE IF p.exc # "none"
           THEN Fail("prepare", p.exc)
                /\ UNCHANGED <<players_df, pg_df, last_game_date>>
           ELSE IF g.exc # "none"
           THEN Fail("prepare", g.exc)
                /\ UNCHANGED <<players_df, pg_df, last_game_date>>
           ELSE /\ players_df' = p.df
                /\ pg_df' = g.df
                /\ last_game_date' = LastGameDate(g.df)
                /\ pc' = "stage_players"
                /\ UNCHANGED <<exit_code, failed_at>>
    /\ UNCHANGED <<files, warehouse, now, skip_injuries, db0, inj_outcome,
                   upserted, tvars, pvars>>

\* write_staging(players_df, "stg_players")
WriteStagingPlayers ==
    /\ pc = "stage_players"
    /\ \E ok \in BOOLEAN :
        IF ok
        THEN /\ stg_players' = players_df
             /\ pc' = "stage_player_game"
             /\ UNCHANGED <<exit_code, failed_at>>
        ELSE /\ stg_players' \in FailedWriteOutcomes(stg_players, players_df)
             /\ Fail("stage_players", "SQLAlchemyError")
    /\ UNCHANGED <<files, stg_player_game, stg_injuries, production, now,
                   skip_injuries, players_df, pg_df, last_game_date, db0,
                   inj_outcome, upserted, tvars, pvars>>

\* write_staging(pg_df, "stg_player_game")
WriteStagingPlayerGame ==
    /\ pc = "stage_player_game"
    /\ \E ok \in BOOLEAN :
        IF ok
        THEN /\ stg_player_game' = pg_df
             /\ pc' = "stage_injuries"
             /\ UNCHANGED <<exit_code, failed_at>>
        ELSE /\ stg_player_game' \in FailedWriteOutcomes(stg_player_game, pg_df)
             /\ Fail("stage_player_game", "SQLAlchemyError")
    /\ UNCHANGED <<files, stg_players, stg_injuries, production, now,
                   skip_injuries, players_df, pg_df, last_game_date, db0,
                   inj_outcome, upserted, tvars, pvars>>

\* The first injury block: read, prepare and stage the injury file, every
\* exception caught and printed as a warning.
StageInjuries ==
    /\ pc = "stage_injuries"
    /\ IF skip_injuries \/ ~injuries_parquet.exists
       THEN /\ inj_outcome' = IF skip_injuries THEN "skipped" ELSE "missing"
            /\ UNCHANGED stg_injuries
       ELSE \E readable \in BOOLEAN, ok \in BOOLEAN :
            LET df == injuries_parquet.df
                r == prepare_injuries_for_staging(df)
            IN IF ~readable
               THEN inj_outcome' = "read_failed" /\ UNCHANGED stg_injuries
               ELSE IF IsEmpty(df)
               THEN inj_outcome' = "empty" /\ UNCHANGED stg_injuries
               ELSE IF r.exc # "none"
               THEN inj_outcome' = "prepare_failed" /\ UNCHANGED stg_injuries
               ELSE IF ok
               THEN inj_outcome' = "staged" /\ stg_injuries' = r.df
               ELSE /\ inj_outcome' = "stage_failed"
                    /\ stg_injuries' \in FailedWriteOutcomes(stg_injuries, r.df)
    /\ pc' = "upsert_players"
    /\ UNCHANGED <<files, stg_players, stg_player_game, production, now,
                   skip_injuries, players_df, pg_df, last_game_date, exit_code,
                   db0, failed_at, upserted, tvars, pvars>>

UpsertPlayers ==
    /\ pc = "upsert_players"
    /\ \E committed \in BOOLEAN :
        /\ upsert_players_from_stg(committed, now)
        /\ IF committed
           THEN pc' = "upsert_player_games" /\ UNCHANGED <<exit_code, failed_at>>
           ELSE Fail("upsert_players", "SQLAlchemyError")
    /\ UNCHANGED <<files, staging, fact_player_game, fact_player_injury,
                   meta_run_state, now, skip_injuries, players_df, pg_df,
                   last_game_date, db0, inj_outcome, tvars, pvars>>

UpsertPlayerGames ==
    /\ pc = "upsert_player_games"
    /\ \E committed \in BOOLEAN :
        /\ upsert_player_games_from_stg(committed, now)
        /\ IF committed
           THEN pc' = "upsert_injuries" /\ UNCHANGED <<exit_code, failed_at>>
           ELSE Fail("upsert_player_games", "SQLAlchemyError")
    /\ UNCHANGED <<files, staging, dim_player, fact_player_injury,
                   meta_run_state, now, skip_injuries, players_df, pg_df,
                   last_game_date, db0, inj_outcome, tvars, pvars>>

\* The second injury block: upsert_injuries_from_stg, its exception caught.
UpsertInjuries ==
    /\ pc = "upsert_injuries"
    /\ IF skip_injuries \/ ~injuries_parquet.exists
       THEN UNCHANGED <<fact_player_injury, upserted>>
       ELSE \E committed \in BOOLEAN : upsert_injuries_from_stg(committed)
    /\ pc' = "update_meta"
    /\ UNCHANGED <<files, staging, dim_player, fact_player_game, meta_run_state,
                   now, skip_injuries, players_df, pg_df, last_game_date,
                   exit_code, db0, failed_at, inj_outcome, tvars, pvars>>

\* update_meta_run_state("nfl_pbp_load", last_game_date)
UpdateMeta ==
    /\ pc = "update_meta"
    /\ \E committed \in BOOLEAN :
        /\ update_meta_run_state(committed, "nfl_pbp_load", last_game_date, now)
        /\ IF committed
           THEN pc' = "summary" /\ UNCHANGED <<exit_code, failed_at>>
           ELSE Fail("update_meta", "SQLAlchemyError")
    /\ UNCHANGED <<files, staging, dim_player, fact_player_game,
                   fact_player_injury, now, skip_injuries, players_df, pg_df,
                   last_game_date, db0, inj_outcome, upserted, tvars, pvars>>

\* The summary queries, then the return to __main__.
Summary ==
    /\ pc = "summary"
    /\ \E ok \in BOOLEAN :
        IF ok
        THEN pc' = "exit" /\ exit_code' = 0 /\ UNCHANGED failed_at
        ELSE Fail("summary", "SQLAlchemyError")
    /\ UNCHANGED <<files, warehouse, now, skip_injuries, players_df, pg_df,
                   last_game_date, db0, inj_outcome, upserted, tvars, pvars>>

Next ==
    \/ Start
    \/ EnsureFiles
    \/ ReadAndPrepare
    \/ WriteStagingPlayers
    \/ WriteStagingPlayerGame
    \/ StageInjuries
    \/ UpsertPlayers
    \/ UpsertPlayerGames
    \/ UpsertInjuries
    \/ UpdateMeta
    \/ Summary

Spec == InitLoad /\ [][Next]_vars

-----------------------------------------------------------------------------
(* load.py: the upsert_* functions called on their own, any number of times,
   on staging tables that stay as they are *)

\* Staging tables write_staging can have left (their keys are never
\* missing and their statistics are integers: the prepare_* functions see
\* to both).  A key may occur in several rows; a table may lack a column
\* the statement reads.
StgPlayerTables ==
    Frames(PlayerStagingCols,
           {PlayerRow(PlayerStagingCols, "p1", "QB"),
            PlayerRow(PlayerStagingCols, "p2", "WR")},
           MaxStgRows)
    \cup
    Frames(PlayerStagingCols \ {"birth_date"},
           {PlayerRow(PlayerStagingCols \ {"birth_date"}, "p1", "QB")}, MaxStgRows)

StgPlayerGameTables ==
    Frames(PlayerGameStagingCols,
           {PlayerGameRow(PlayerGameStagingCols, "G1", "p1", 1, 0),
            PlayerGameRow(PlayerGameStagingCols, "G1", "p1", 2, 0),
            PlayerGameRow(PlayerGameStagingCols, "G1", "p2", 3, 0)},
           MaxStgRows)

StgInjuryTables ==
    Frames(InjuryCols, {InjuryRow(InjuryCols, p) : p \in {"p1", "p2"}}, MaxStgRows)
    \cup
    Frames(InjuryCols \ {"status"}, {InjuryRow(InjuryCols \ {"status"}, "p1")},
           MaxStgRows)

\* Either the two keyed pairs of staging and production table are drawn, or
\* the injury pair; the other tables are those of a fresh warehouse.
InitMerge ==
    /\ \E w \in Warehouses :
        \/ /\ stg_players \in StgPlayerTables
           /\ dim_player = w.dim_player
           /\ stg_player_game \in StgPlayerGameTables
           /\ fact_player_game = w.fact_player_game
           /\ stg_injuries = NoTable /\ fact_player_injury = <<>>
        \/ /\ stg_injuries \in StgInjuryTables
           /\ fact_player_injury = w.fact_player_injury
           /\ stg_players = NoTable /\ dim_player = <<>>
           /\ stg_player_game = NoTable /\ fact_player_game = <<>>
    /\ meta_run_state = <<>>
    /\ db0 = FreshWarehouse
    /\ players_parquet = Missing
    /\ player_game_parquet = Missing
    /\ injuries_parquet = Missing
    /\ NotCalled
    /\ TransformIdle
    /\ PrepareIdle

CallUpsertPlayers ==
    /\ pc = "idle"
    /\ now < MaxClock
    /\ now' = now + 1
    /\ \E committed \in BOOLEAN : upsert_players_from_stg(committed, now + 1)
    /\ UNCHANGED <<files, staging, fact_player_game, fact_player_injury,
                   meta_run_state, locals, db0, failed_at, inj_outcome, tvars, pvars>>

CallUpsertPlayerGames ==
    /\ pc = "idle"
    /\ now < MaxClock
    /\ now' = now + 1
    /\ \E committed \in BOOLEAN : upsert_player_games_from_stg(committed, now + 1)
    /\ UNCHANGED <<files, staging, dim_player, fact_player_injury,
                   meta_run_state, locals, db0, failed_at, inj_outcome, tvars, pvars>>

CallUpsertInjuries ==
    /\ pc = "idle"
    /\ now < MaxClock
    /\ now' = now + 1
    /\ \E committed \in BOOLEAN : upsert_injuries_from_stg(committed)
    /\ UNCHANGED <<files, staging, dim_player, fact_player_game,
                   meta_run_state, locals, db0, failed_at, inj_outcome, tvars, pvars>>

NextMerge == CallUpsertPlayers \/ CallUpsertPlayerGames \/ CallUpsertInjuries

SpecMerge == InitMerge /\ [][NextMerge]_vars

-----------------------------------------------------------------------------
(* The transform stage as state machines over one input each *)

\* run_transform, player dimension: read the roster, transform it.
InitPlayers ==
    /\ roster \in SeqUpTo(RosterRows, MaxRoster)
    /\ players = EmptyDF
    /\ pbp = <<>>
    /\ player_game_stats = EmptyDF
    /\ tstage = "start"
    /\ PrepareIdle
    /\ LoadIdle

TransformPlayers ==
    /\ tstage = "start"
    /\ players' = transform_players([cols |-> RosterCols, rows |-> roster])
    /\ tstage' = "done"
    /\ UNCHANGED <<roster, pbp, player_game_stats, pvars, lvars>>

NextPlayers == TransformPlayers

SpecPlayers == InitPlayers /\ [][NextPlayers]_vars

\* run_transform, player-game fact: read the plays, aggregate them.
InitStats ==
    /\ pbp \in SeqUpTo(PlaySet, MaxPlays)
    /\ player_game_stats = EmptyDF
    /\ roster = <<>>
    /\ players = EmptyDF
    /\ tstage = "start"
    /\ PrepareIdle
    /\ LoadIdle

TransformPbpToPlayerGame ==
    /\ tstage = "start"
    /\ player_game_stats' = transform_pbp_to_player_game(pbp)
    /\ tstage' = "done"
    /\ UNCHANGED <<roster, players, pbp, pvars, lvars>>

NextStats == TransformPbpToPlayerGame

SpecStats == InitStats /\ [][NextStats]_vars

\* The prepare_* functions, each applied to a frame of the bounded sets.
InitPrepare ==
    /\ \/ prep_kind = "players" /\ prep_in \in PrepPlayerFrames
       \/ prep_kind = "player_game" /\ prep_in \in PrepPlayerGameFrames
    /\ prep_out = NoResult
    /\ TransformIdle
    /\ LoadIdle

PreparePlayers ==
    /\ prep_kind = "players"
    /\ prep_out = NoResult
    /\ prep_out' = prepare_players_for_staging(prep_in)
    /\ UNCHANGED <<prep_kind, prep_in, tvars, lvars>>

PreparePlayerGame ==
    /\ prep_kind = "player_game"
    /\ prep_out = NoResult
    /\ prep_out' = prepare_player_game_for_staging(prep_in)
    /\ UNCHANGED <<prep_kind, prep_in, tvars, lvars>>

NextPrepare == PreparePlayers \/ PreparePlayerGame

SpecPrepare == InitPrepare /\ [][NextPrepare]_vars

-----------------------------------------------------------------------------
(* Claims about the transform stage *)

\* The player_id values of the roster.
RosterIds == {roster[i]["player_id"] : i \in 1..Len(roster)}

\* The first roster row of player p, as transform_players would emit it.
FirstRosterRow(p) ==
    LET i == CHOOSE k \in 1..Len(roster) :
                 /\ roster[k]["player_id"] = p
                 /\ \A j \in 1..(k-1) : roster[j]["player_id"] # p
    IN [c \in PlayerCols \cup {"full_name"} |->
            IF c = "full_name"
            THEN StrAdd(StrAdd(roster[i]["first_name"], " "), roster[i]["last_name"])
            ELSE roster[i][c]]

\* C2: for every roster snapshot the output of transform_players has exactly
\* one row per distinct player_id, and it is the first row with that
\* player_id in input order.
C2_OneRowPerPlayerFirstWins ==
    tstage = "done" =>
        \A p \in RosterIds :
            LET idx == {i \in 1..Len(players.rows) : players.rows[i]["player_id"] = p}
            IN /\ Cardinality(idx) = 1
               /\ \A i \in idx : players.rows[i] = FirstRosterRow(p)

\* The statistic columns each category contributes to the combined frame.
PassingStatCols == {"pass_attempts", "completions", "pass_yards", "pass_tds", "interception"}
RushingStatCols == {"rush_attempts", "rushing_yards", "rush_tds"}
ReceivingStatCols == {"receptions", "rec_yards", "rec_tds"}

\* The (game_id, player_id) pairs of a view: the plays with flag set, the
\* player taken from idcol (pairs with a missing identifier are no pairs).
ViewPairs(flag, idcol) ==
    {<<pbp[i]["game_id"], pbp[i][idcol]>> : i \in
        {j \in 1..Len(pbp) : /\ pbp[j][flag] = 1
                             /\ pbp[j]["game_id"] # NULL
                             /\ pbp[j][idcol] # NULL}}

PassingPairs == ViewPairs("pass_attempt", "passer_player_id")
RushingPairs == ViewPairs("rush_attempt", "rusher_player_id")
ReceivingPairs == ViewPairs("complete_pass", "receiver_player_id")
AllPairs == PassingPairs \cup RushingPairs \cup ReceivingPairs

\* The rows of the combined frame with key k.
StatRowsOf(k) ==
    {i \in 1..Len(player_game_stats.rows) :
        /\ player_game_stats.rows[i]["game_id"] = k[1]
        /\ player_game_stats.rows[i]["player_id"] = k[2]}

\* Every pair of a view has exactly one row in the combined frame.
C3_ExactlyOneRow ==
    tstage = "done" => \A k \in AllPairs : Cardinality(StatRowsOf(k)) = 1

\* In the row of a pair, every statistic of a category the pair is not in is
\* present and 0.
ZeroIn(k, pairs, statcols) ==
    k \notin pairs =>
        \A i \in StatRowsOf(k) : \A c \in statcols :
            /\ c \in DOMAIN player_game_stats.rows[i]
            /\ player_game_stats.rows[i][c] = 0

C3_ZeroFilled ==
    tstage = "done" =>
        \A k \in AllPairs :
            /\ ZeroIn(k, PassingPairs, PassingStatCols)
            /\ ZeroIn(k, RushingPairs, RushingStatCols)
            /\ ZeroIn(k, ReceivingPairs, ReceivingStatCols)

\* C3: every (game_id, player_id) pair of the passing, rushing or receiving
\* view appears in exactly one row of the output of combine_player_stats,
\* and every statistic of a category the player took no part in is 0 in it.
C3_AggregationComplete == C3_ExactlyOneRow /\ C3_ZeroFilled

\* The cell of row r in column c, an absent column counting 0.
TdCell(r, c) == IF c \in DOMAIN r THEN r[c] ELSE 0

\* The touchdowns the plays credit to player k[2] in game k[1], every
\* category counted on its own: as passer of a pass attempt, as rusher of a
\* rush attempt and as receiver of a completed pass.
CreditedTds(k) ==
    LET credit(i, flag, idcol, tdcol) ==
            IF /\ pbp[i][flag] = 1
               /\ pbp[i]["game_id"] = k[1]
               /\ pbp[i][idcol] = k[2]
            THEN pbp[i][tdcol] ELSE 0
        S[i \in 0..Len(pbp)] ==
            IF i = 0 THEN 0
            ELSE S[i-1]
                 + credit(i, "pass_attempt", "passer_player_id", "pass_touchdown")
                 + credit(i, "rush_attempt", "rusher_player_id", "rush_touchdown")
                 + credit(i, "complete_pass", "receiver_player_id", "pass_touchdown")
    IN S[Len(pbp)]

\* The scenario of a touchdown pass p1 throws to p1, with a rush of p2 that
\* scores nothing, in one game.
DoubleCountScenario ==
    pbp = <<PassPlay("G1", "p1", "p1", "td"), RushPlay("G1", "p2", 0)>>

\* C12: in every row of the output of combine_player_stats total_tds is
\* pass_tds + rush_tds + rec_tds of that row, an absent category counting 0,
\* and nothing is deducted for a play counted in two categories: total_tds
\* is the sum of the touchdowns credited per category, so a touchdown pass
\* whose passer and receiver are the same player adds 2.
C12_TotalTds ==
    tstage = "done" =>
        /\ \A i \in 1..Len(player_game_stats.rows) :
              LET r == player_game_stats.rows[i]
              IN /\ "total_tds" \in DOMAIN r
                 /\ r["total_tds"] = TdCell(r, "pass_tds") + TdCell(r, "rush_tds")
                                        + TdCell(r, "rec_tds")
                 /\ r["total_tds"] = CreditedTds(<<r["game_id"], r["player_id"]>>)
        /\ DoubleCountScenario =>
              /\ \A i \in StatRowsOf(<<"G1", "p1">>) :
                    /\ player_game_stats.rows[i]["pass_tds"] = 1
                    /\ player_game_stats.rows[i]["rec_tds"] = 1
                    /\ player_game_stats.rows[i]["total_tds"] = 2
              /\ \A i \in StatRowsOf(<<"G1", "p2">>) :
                    player_game_stats.rows[i]["total_tds"] = 0

\* combine_player_stats has run on the scenario: p1 has a row with
\* total_tds 2 and p2 a row with total_tds 0.
C12_Witness ==
    /\ tstage = "done"
    /\ DoubleCountScenario
    /\ \E i \in StatRowsOf(<<"G1", "p1">>) :
          player_game_stats.rows[i]["total_tds"] = 2
    /\ \E i \in StatRowsOf(<<"G1", "p2">>) :
          player_game_stats.rows[i]["total_tds"] = 0

-----------------------------------------------------------------------------
(* Claims about the prepare_* functions *)

\* C10: every input row whose player_id is missing is absent from the output
\* of prepare_players_for_staging, every input row whose game_id or
\* player_id is missing is absent from the output of
\* prepare_player_game_for_staging, and the rows with all keys are kept:
\* the output has one row per input row with all keys present, in order.
PrepKeys == IF prep_kind = "players" THEN {"player_id"} ELSE {"game_id", "player_id"}

C10_NullKeyRowsDropped ==
    (prep_out # NoResult /\ prep_out.exc = "none") =>
        LET kept == SelectSeq(prep_in.rows, LAMBDA r : \A c \in PrepKeys : r[c] # NULL)
        IN /\ Len(prep_out.df.rows) = Len(kept)
           /\ \A i \in 1..Len(kept) : \A c \in PrepKeys :
                  prep_out.df.rows[i][c] = kept[i][c]

\* The frame handed to the prepare_* function has that function's key columns.
HasKeyColumns == PrepKeys \subseteq prep_in.cols

\* The player-game half of C11: the output of
\* prepare_player_game_for_staging has exactly game_id, player_id and the 13
\* numeric statistic columns.
C11_PlayerGameShape ==
    (prep_kind = "player_game" /\ prep_out # NoResult /\ HasKeyColumns) =>
        /\ prep_out.exc = "none"
        /\ prep_out.df.cols = PlayerGameStagingCols
        /\ \A i \in 1..Len(prep_out.df.rows) :
              DOMAIN prep_out.df.rows[i] = PlayerGameStagingCols

\* The player half of C11: the output of prepare_players_for_staging has
\* exactly the six player staging columns.
C11_PlayersShape ==
    (prep_kind = "players" /\ prep_out # NoResult /\ HasKeyColumns) =>
        /\ prep_out.exc = "none"
        /\ prep_out.df.cols = PlayerStagingCols

\* C11: for every input table that has the key columns, both prepare_*
\* functions return (they do not raise) a table with exactly the staging
\* columns: extra input columns are dropped and a staging column the input
\* lacks is created rather than omitted.
C11_StagingShape == C11_PlayersShape /\ C11_PlayerGameShape

-----------------------------------------------------------------------------
(* Claims about the upsert_* functions *)

\* A production table without its timestamp column.
NonTs(table) ==
    [i \in 1..Len(table) |->
        [c \in DOMAIN table[i] \ {"updated_at"} |-> table[i][c]]]

\* C1: running upsert_players_from_stg or upsert_player_games_from_stg again
\* on the staging table it has already merged leaves the production table
\* with the same rows and the same non-timestamp values.
C1_MergeIdempotent ==
    [][/\ upserted.players >= 1 => NonTs(dim_player') = NonTs(dim_player)
       /\ upserted.player_games >= 1 =>
              NonTs(fact_player_game') = NonTs(fact_player_game)]_vars

\* Both functions have committed twice, on tables where the first run both
\* updated a row and inserted one, and the second run touched the rows.
C1_Witness ==
    /\ upserted.players >= 2
    /\ upserted.player_games >= 2
    /\ Len(dim_player) >= 3
    /\ Len(fact_player_game) >= 3
    /\ \E i \in 1..Len(dim_player) : dim_player[i]["updated_at"] >= 2
    /\ \E i \in 1..Len(fact_player_game) : fact_player_game[i]["updated_at"] >= 2

FactKey(r) == <<r["game_id"], r["player_id"]>>

KeysOf(rows) == {FactKey(rows[i]) : i \in 1..Len(rows)}

\* The staging column a statistic column of fact_player_game is loaded from.
StagingColOf(c) == IF c = "pass_completions" THEN "completions" ELSE c

\* The last row of stg_player_game with key k.
LastStaged(k) ==
    LET idx == {i \in 1..Len(stg_player_game.rows) :
                    FactKey(stg_player_game.rows[i]) = k}
    IN stg_player_game.rows[CHOOSE i \in idx : \A j \in idx : j <= i]

\* C7: after upsert_player_games_from_stg commits, fact_player_game holds
\* exactly one row for each key that was in the table or is in
\* stg_player_game and no other row; a row whose key is in staging has every
\* statistic equal to the staged value (of the last staging row with the
\* key, a missing value counting 0); a row whose key is not in staging is
\* unchanged.
C7_UpsertPostcondition ==
    [][upserted'.player_games = upserted.player_games + 1 =>
        LET staged == KeysOf(stg_player_game.rows)
            before == KeysOf(fact_player_game)
            after == fact_player_game'
        IN /\ KeysOf(after) = before \cup staged
           /\ \A k \in before \cup staged :
                 Cardinality({i \in 1..Len(after) : FactKey(after[i]) = k}) = 1
           /\ \A i \in 1..Len(after) :
                 FactKey(after[i]) \in staged =>
                    \A c \in FactStatCols :
                        after[i][c] =
                            LET v == LastStaged(FactKey(after[i]))[StagingColOf(c)]
                            IN IF v = NaN THEN 0 ELSE v
           /\ \A i \in 1..Len(fact_player_game) :
                 FactKey(fact_player_game[i]) \notin staged =>
                    \E j \in 1..Len(after) : after[j] = fact_player_game[i]
      ]_vars

\* upsert_player_games_from_stg has committed on a table that held a row
\* with a staged key (now overwritten with another value) and a row with a
\* key that is not staged.
C7_Witness ==
    /\ upserted.player_games >= 1
    /\ \E i \in 1..Len(fact_player_game) :
          /\ FactKey(fact_player_game[i]) = <<"G1", "p1">>
          /\ fact_player_game[i]["pass_tds"] = 2
          /\ fact_player_game[i]["updated_at"] >= 1
    /\ \E i \in 1..Len(fact_player_game) :
          /\ FactKey(fact_player_game[i]) \notin KeysOf(stg_player_game.rows)
          /\ fact_player_game[i]["updated_at"] = 0
    /\ \E i \in 1..Len(fact_player_game) :
          FactKey(fact_player_game[i]) = <<"G1", "p2">>

\* The rows of a table as a set.
RowSet(table) == {table[i] : i \in 1..Len(table)}

\* C9: upsert_injuries_from_stg never changes or removes a row already in
\* fact_player_injury, inserts a staging row only when that row is not
\* already present, and so adds no rows when it runs again on the same
\* stg_injuries.
C9_InsertIfAbsent ==
    [][upserted'.injuries = upserted.injuries + 1 =>
        LET before == fact_player_injury
            after == fact_player_injury'
        IN /\ Len(after) >= Len(before)
           /\ SubSeq(after, 1, Len(before)) = before
           /\ \A i \in (Len(before) + 1)..Len(after) :
                 after[i] \notin RowSet(before)
           /\ upserted.injuries >= 1 => after = before
      ]_vars

\* The part of C9 that holds: the rows already in the table stay, in place.
C9_ExistingRowsKept ==
    [][SubSeq(fact_player_injury', 1, Len(fact_player_injury)) = fact_player_injury]_vars

-----------------------------------------------------------------------------
(* Claims about run_load *)

RequiredFileMissing == ~players_parquet.exists \/ ~player_game_parquet.exists

\* C4: when dim_players.parquet or fact_player_game.parquet is absent the
\* load command ends with exit code 2 and writes no warehouse table,
\* whatever the other files are.
C4_MissingFileFatal ==
    (pc # "idle" /\ RequiredFileMissing) =>
        /\ WH = db0
        /\ pc = "exit" => exit_code = 2

\* The command has ended on a missing fact file, the other two files being
\* there, on a warehouse that held data.
C4_Witness ==
    /\ pc = "exit"
    /\ exit_code = 2
    /\ ~player_game_parquet.exists
    /\ players_parquet.exists
    /\ injuries_parquet.exists
    /\ db0 = UsedWarehouse

\* The date a date_key of the model stands for.
CalendarDate(k) ==
    CASE k = 20250907 -> "2025-09-07"
      [] k = 20251105 -> "2025-11-05"

\* C5: when the loaded player-game facts carry a date_key column, a
\* successful run sets meta_run_state.last_game_date of pipeline
\* nfl_pbp_load to the largest date_key, written YYYY-MM-DD.
C5_LastGameDateIsMaxDateKey ==
    (/\ pc = "exit"
     /\ exit_code = 0
     /\ "date_key" \in player_game_parquet.df.cols
     /\ Len(player_game_parquet.df.rows) > 0) =>
        \E i \in 1..Len(meta_run_state) :
            /\ meta_run_state[i]["pipeline_name"] = "nfl_pbp_load"
            /\ meta_run_state[i]["last_game_date"] =
                 CalendarDate(MaxOf({player_game_parquet.df.rows[j]["date_key"] :
                                        j \in 1..Len(player_game_parquet.df.rows)}))

\* The last row of stg_players with player_id p.
LastStagedPlayer(p) ==
    LET idx == {i \in 1..Len(stg_players.rows) : stg_players.rows[i]["player_id"] = p}
    IN stg_players.rows[CHOOSE i \in idx : \A j \in idx : j <= i]

\* dim_player holds what this run staged: one row per staged player, with
\* the staged values, written at the time of this run.
PlayersOfThisRunKept ==
    \A p \in {stg_players.rows[i]["player_id"] : i \in 1..Len(stg_players.rows)} :
        LET idx == {i \in 1..Len(dim_player) : dim_player[i]["player_id"] = p}
        IN /\ Cardinality(idx) = 1
           /\ \A i \in idx :
                /\ dim_player[i]["updated_at"] = now
                /\ \A c \in PlayerStagingCols :
                      dim_player[i][c] = LastStagedPlayer(p)[c]

\* C6: if upsert_players_from_stg commits and upsert_player_games_from_stg
\* then fails, dim_player keeps every change of this run, fact_player_game
\* is exactly as it was before the run, and the failure ends the run (exit
\* code 3) with no second attempt.
C6_PerTableAtomicity ==
    (pc = "exit" /\ failed_at = "upsert_player_games") =>
        /\ upserted.players = 1
        /\ PlayersOfThisRunKept
        /\ fact_player_game = db0.fact_player_game
        /\ upserted.player_games = 0
        /\ exit_code = 3

\* The fact upsert failed after the dimension upsert changed dim_player, with
\* rows staged for a fact table that held rows.
C6_Witness ==
    /\ pc = "exit"
    /\ failed_at = "upsert_player_games"
    /\ dim_player # db0.dim_player
    /\ Len(stg_player_game.rows) = MaxLoadRows
    /\ CanSelect(stg_player_game, PlayerGameStagingCols)
    /\ db0.fact_player_game # <<>>

InjuriesDegraded ==
    inj_outcome \in {"missing", "empty", "read_failed", "prepare_failed", "stage_failed"}

\* What C8 says of the rest of the run: an injury failure ends no run; the
\* run that meets no other failure upserts both keyed tables, updates
\* meta_run_state and exits with code 0.
C8_RunCompletes ==
    (pc = "exit" /\ InjuriesDegraded /\ failed_at = "none") =>
        /\ exit_code = 0
        /\ upserted.players = 1
        /\ upserted.player_games = 1
        /\ \E i \in 1..Len(meta_run_state) :
              /\ meta_run_state[i]["pipeline_name"] = "nfl_pbp_load"
              /\ meta_run_state[i]["last_run_at"] = now

\* C8: if reading, preparing or staging the injury snapshot fails (or the
\* injury file is missing or empty), the run still upserts dim_player and
\* fact_player_game, updates meta_run_state and completes successfully, and
\* fact_player_injury is left unchanged by that run.
C8_InjuryDegradation ==
    /\ C8_RunCompletes
    /\ (pc = "exit" /\ InjuriesDegraded /\ failed_at = "none") =>
            fact_player_injury = db0.fact_player_injury

=============================================================================
